---------------------------- MODULE Spec2Model ----------------------------
(***************************************************************************)
(* Model of the segment validator of back/eaf (src/back/eaf/src/parser.rs):*)
(* ParserConfig (the four compiled matchers) and Parser (the single pass    *)
(* over the tokens of one segment that collects nodes and mistakes).        *)
(*                                                                         *)
(* Strings are sequences of bytes, as Rust's str offsets are byte offsets.  *)
(* An ASCII character is the one-element string holding it; the two bytes   *)
(* of the non-ASCII letter U+017E are "c5" and "be".  A regular expression  *)
(* built from a list of entries is modelled for entries that are literal    *)
(* strings (no metacharacters).                                             *)
(***************************************************************************)
EXTENDS Integers, Sequences, FiniteSets, TLC

VARIABLES
    args,          \* the four lists the caller gave to ParserConfig::from_args
    previous,      \* the result of an earlier parse of the same segment, if any
    config,        \* the ParserConfig shared by reference (Parser.config)
    source,        \* Parser.source: the normalized text, a sequence of bytes
    tokens,        \* Parser.tokens
    current,       \* Parser.current
    nodes,         \* Parser.nodes
    mistakes,      \* Parser.mistakes
    round_start,   \* Parser.round_start: {} is None, {i} is Some(i)
    square_start,  \* Parser.square_start
    angle_start,   \* Parser.angle_start
    pc,            \* "run" inside the while loop of parse, "done" after it
    suspended,     \* a second Parser over the same config, between its steps
    tokenizer      \* the Tokenizer of tokenizer.rs and the text given to it

vars == <<args, previous, config, source, tokens, current, nodes, mistakes,
          round_start, square_start, angle_start, pc, suspended, tokenizer>>

----------------------------------------------------------------------------
(* Bounds of the model *)

\* The longest token sequence of a segment.
MaxTokens == 3

\* The longest text given to the tokenizer, in graphemes.
MaxGraphemes == 4

----------------------------------------------------------------------------
(* Tokens, nodes and mistakes (crate::{Token, TokenKind, Node, Mistake}) *)

Round == "Round"
Square == "Square"
Angle == "Angle"
DelimKind == {Round, Square, Angle}

NonDelim == <<"NonDelim">>
Open(kind) == <<"Open", kind>>
Close(kind) == <<"Close", kind>>

Token(kind, start, end) == [kind |-> kind, start |-> start, end |-> end]

NodeToken(token) == [node |-> "Token", token |-> token]
NodeOpen(kind) == [node |-> "Open", kind |-> kind]
NodeClose(kind) == [node |-> "Close", kind |-> kind]
NodeAttrList(codes) == [node |-> "AttrList", codes |-> codes]

BadToken(at) == [mistake |-> "BadToken", at |-> at]
BadSubstr(start, end, at) ==
    [mistake |-> "BadSubstr", start |-> start, end |-> end, at |-> at]
NestedDelim(kind, outermost_start, at) ==
    [mistake |-> "NestedDelim", kind |-> kind,
     outermost_start |-> outermost_start, at |-> at]
ClosingUnopenedDelim(kind, at) ==
    [mistake |-> "ClosingUnopenedDelim", kind |-> kind, at |-> at]
UnclosedDelim(kind, at) == [mistake |-> "UnclosedDelim", kind |-> kind, at |-> at]
MissingAttrs(at) == [mistake |-> "MissingAttrs", at |-> at]
BadAttr(attr, at) == [mistake |-> "BadAttr", attr |-> attr, at |-> at]

\* Option<usize>
None == {}
Some(i) == {i}
Unwrap(opt) == CHOOSE i \in opt : TRUE

----------------------------------------------------------------------------
(* Strings *)

Digits == {"0", "1", "2"}

\* s[from..to] of Rust: bytes from (0-based, inclusive) to to (exclusive).
Slice(s, from, to) == SubSeq(s, from + 1, to)

\* slice.join("|") is not needed as a string: only whether it is empty.
RECURSIVE SumLen(_)
SumLen(list) ==
    IF list = <<>> THEN 0 ELSE Len(Head(list)) + SumLen(Tail(list))

JoinedLen(list) ==
    IF list = <<>> THEN 0 ELSE SumLen(list) + (Len(list) - 1)

\* str::split('_'): the pieces between the separators, empty ones included.
RECURSIVE SplitFrom(_, _, _)
SplitFrom(s, i, piece) ==
    IF i > Len(s) THEN <<piece>>
    ELSE IF s[i] = "_" THEN <<piece>> \o SplitFrom(s, i + 1, <<>>)
    ELSE SplitFrom(s, i + 1, Append(piece, s[i]))

Split(s) == SplitFrom(s, 1, <<>>)

\* The order of bytes, for String's Ord (lexicographic on bytes).
ByteOrd(b) ==
    CASE b = "%" -> 37
      [] b = "," -> 44
      [] b = "-" -> 45
      [] b = "0" -> 48
      [] b = "1" -> 49
      [] b = "2" -> 50
      [] b = "M" -> 77
      [] b = "S" -> 83
      [] b = "X" -> 88
      [] b = "_" -> 95
      [] b = "a" -> 97
      [] b = "b" -> 98
      [] b = "be" -> 190
      [] b = "c5" -> 197
      [] OTHER -> 255

RECURSIVE StrLess(_, _)
StrLess(a, b) ==
    IF b = <<>> THEN FALSE
    ELSE IF a = <<>> THEN TRUE
    ELSE IF Head(a) # Head(b) THEN ByteOrd(Head(a)) < ByteOrd(Head(b))
    ELSE StrLess(Tail(a), Tail(b))

\* Vec<String>::sort(): ascending.
RECURSIVE InsertSorted(_, _)
InsertSorted(sorted, x) ==
    IF sorted = <<>> THEN <<x>>
    ELSE IF StrLess(x, Head(sorted)) THEN <<x>> \o sorted
    ELSE <<Head(sorted)>> \o InsertSorted(Tail(sorted), x)

\* A sort that leaves the list in the order it has.
SortStrings_keep_order(list) == list

RECURSIVE SortStrings(_)
SortStrings(list) ==
    IF list = <<>> THEN <<>>
    ELSE InsertSorted(SortStrings(SubSeq(list, 1, Len(list) - 1)), list[Len(list)])

Contains(list, x) == \E k \in 1..Len(list) : list[k] = x

----------------------------------------------------------------------------
(* ParserConfig *)

\* Option<Regex> for an alternation of literal entries.
NoRegex == [is_some |-> FALSE, alts |-> <<>>]
SomeRegex(alts) == [is_some |-> TRUE, alts |-> alts]

\* slice_to_regex: None for an empty joined string, else \A(?:e1|e2|...)\z
slice_to_regex(slice) ==
    IF JoinedLen(slice) = 0 THEN NoRegex ELSE SomeRegex(slice)

\* atoms.sort_unstable_by_key(|x| Reverse(x.len())): longest first.  Entries
\* of equal length keep the caller's order here; two different literals of
\* the same length never match at the same place, so ties decide nothing.
RECURSIVE InsertByLenDesc(_, _)
InsertByLenDesc(sorted, x) ==
    IF sorted = <<>> THEN <<x>>
    ELSE IF Len(x) > Len(Head(sorted)) THEN <<x>> \o sorted
    ELSE <<Head(sorted)>> \o InsertByLenDesc(Tail(sorted), x)

RECURSIVE SortByLenDesc(_)
SortByLenDesc(list) ==
    IF list = <<>> THEN <<>>
    ELSE InsertByLenDesc(SortByLenDesc(SubSeq(list, 1, Len(list) - 1)),
                         list[Len(list)])

\* The atoms matcher built from the atoms in the caller's order, unsorted.
atoms_regex_caller_order(atoms) ==
    IF JoinedLen(atoms) = 0 THEN NoRegex ELSE SomeRegex(atoms)

\* The atoms matcher of from_args: unanchored alternation, None when empty.
atoms_regex(atoms) ==
    LET sorted == SortByLenDesc(atoms)
    IN IF JoinedLen(sorted) = 0 THEN NoRegex ELSE SomeRegex(sorted)

from_args(whitelist, blacklist, atoms, after_angle) ==
    [whitelist |-> slice_to_regex(whitelist),
     blacklist |-> slice_to_regex(blacklist),
     atoms |-> atoms_regex(atoms),
     after_angle |-> slice_to_regex(after_angle)]

\* is_match of an alternation with no \z: an entry matches at the start of s.
is_match_no_end_anchor(opt_re, s) ==
    IF opt_re.is_some
    THEN \E k \in 1..Len(opt_re.alts) :
            /\ Len(opt_re.alts[k]) <= Len(s)
            /\ SubSeq(s, 1, Len(opt_re.alts[k])) = opt_re.alts[k]
    ELSE FALSE

\* is_match of an anchored alternation: the whole of s is one of the entries.
is_match(opt_re, s) ==
    IF opt_re.is_some THEN \E k \in 1..Len(opt_re.alts) : opt_re.alts[k] = s
    ELSE FALSE

in_whitelist(cfg, s) == is_match(cfg.whitelist, s)
in_blacklist(cfg, s) == is_match(cfg.blacklist, s)
in_after_angle(cfg, s) == is_match(cfg.after_angle, s)

\* An alternative matches at byte offset p of s.
MatchAt(alt, s, p) ==
    /\ p + Len(alt) <= Len(s)
    /\ Slice(s, p, p + Len(alt)) = alt

\* Regex::find_iter for the alternation: successive non-overlapping matches,
\* each the leftmost one at or after the end of the previous match, and at
\* one place the first alternative (in the alternation's order) that matches.
\* iter[p] is the search from byte offset p on.
find_iter(alts, s, pos) ==
    LET iter[p \in 0..(Len(s) + 1)] ==
            IF p > Len(s) THEN <<>>
            ELSE LET ks == {k \in 1..Len(alts) : MatchAt(alts[k], s, p)}
                 IN IF ks = {} THEN iter[p + 1]
                    ELSE LET k == CHOOSE j \in ks : \A i \in ks : j <= i
                             e == p + Len(alts[k])
                         IN <<[start |-> p, end |-> e]>>
                            \o (IF e > p THEN iter[e] ELSE <<>>)
    IN iter[pos]

\* maybe_iter_atoms that yields an iterator with no match when there is no
\* atoms matcher, instead of None.
maybe_iter_atoms_always_some(cfg, s) ==
    Some(IF cfg.atoms.is_some THEN find_iter(cfg.atoms.alts, s, 0) ELSE <<>>)

\* maybe_iter_atoms: None without an atoms matcher, else the matches.
maybe_iter_atoms(cfg, s) ==
    IF cfg.atoms.is_some THEN Some(find_iter(cfg.atoms.alts, s, 0)) ELSE None

----------------------------------------------------------------------------
(* Parser::parse_word *)

Seps == {",", "."}

AllDigits(s) == \A k \in 1..Len(s) : s[k] \in Digits

\* The whole of t has the form of NUMERIC_RE, -?\d*?[,\.]?\d+
NumericForm(t) ==
    LET r == IF t # <<>> /\ Head(t) = "-" THEN Tail(t) ELSE t
    IN \E k \in 0..Len(r) :
          LET rest == SubSeq(r, k + 1, Len(r))
          IN /\ AllDigits(SubSeq(r, 1, k))
             /\ \/ rest # <<>> /\ AllDigits(rest)
                \/ /\ Len(rest) >= 2
                   /\ Head(rest) \in Seps
                   /\ AllDigits(Tail(rest))

\* NUMERIC_RE.is_match(token_str): the expression is not anchored, so it
\* matches when some substring of the token has the numeral form.
NUMERIC_RE_is_match(token_str) ==
    \E i \in 0..Len(token_str) : \E j \in i..Len(token_str) :
        NumericForm(Slice(token_str, i, j))

\* The for loop over the atom matches (lines 187-198), from match k on,
\* entered with prev_end.  loop[i] is the loop from match i on; match i is
\* met with prev_end as the previous iteration left it.
atom_loop(matches, k, prev_end, at) ==
    LET loop[i \in k..(k + Len(matches))] ==
            LET before == IF i = k THEN prev_end ELSE matches[i - 1].end
            IN IF i > Len(matches)
               THEN [mistakes |-> <<>>, word_ok |-> TRUE, prev_end |-> before]
               ELSE LET gap == matches[i].start # before
                    IN [mistakes |->
                           (IF gap
                            THEN <<BadSubstr(before, matches[i].start, at)>>
                            ELSE <<>>)
                           \o loop[i + 1].mistakes,
                        word_ok |-> (~gap) /\ loop[i + 1].word_ok,
                        prev_end |-> loop[i + 1].prev_end]
    IN loop[k]

\* The atom branch (lines 184-206): the loop, then the check of the tail.
atom_check(matches, token_len, at) ==
    LET loop == atom_loop(matches, 1, 0, at)
    IN [mistakes |->
            loop.mistakes
            \o (IF loop.prev_end # token_len
                THEN <<BadSubstr(0, token_len, at)>> ELSE <<>>),
        word_ok |-> loop.word_ok]

\* lexical_check with the blacklist consulted before the whitelist.
lexical_check_blacklist_first(cfg, token_str, at) ==
    IF in_blacklist(cfg, token_str)
    THEN [mistakes |-> <<BadToken(at)>>, word_ok |-> FALSE]
    ELSE IF in_whitelist(cfg, token_str)
    THEN [mistakes |-> <<>>, word_ok |-> TRUE]
    ELSE LET atoms == maybe_iter_atoms(cfg, token_str)
         IN IF atoms # None
            THEN atom_check(Unwrap(atoms), Len(token_str), at)
            ELSE [mistakes |-> <<>>, word_ok |-> TRUE]

\* The branches of parse_word after the numeral test (lines 180-206):
\* whitelist, blacklist, atoms.
lexical_check(cfg, token_str, at) ==
    IF in_whitelist(cfg, token_str)
    THEN [mistakes |-> <<>>, word_ok |-> TRUE]
    ELSE IF in_blacklist(cfg, token_str)
    THEN [mistakes |-> <<BadToken(at)>>, word_ok |-> FALSE]
    ELSE LET atoms == maybe_iter_atoms(cfg, token_str)
         IN IF atoms # None
            THEN atom_check(Unwrap(atoms), Len(token_str), at)
            ELSE [mistakes |-> <<>>, word_ok |-> TRUE]

\* classify_word without the test of round_start: a numeral is accepted
\* anywhere.
classify_word_numeral_anywhere(cfg, token_str, round, at) ==
    IF NUMERIC_RE_is_match(token_str)
    THEN [mistakes |-> <<>>, word_ok |-> TRUE]
    ELSE IF in_whitelist(cfg, token_str)
    THEN [mistakes |-> <<>>, word_ok |-> TRUE]
    ELSE IF in_blacklist(cfg, token_str)
    THEN [mistakes |-> <<BadToken(at)>>, word_ok |-> FALSE]
    ELSE LET atoms == maybe_iter_atoms(cfg, token_str)
         IN IF atoms # None
            THEN atom_check(Unwrap(atoms), Len(token_str), at)
            ELSE [mistakes |-> <<>>, word_ok |-> TRUE]

\* The classification of parse_word (lines 166-206): the mistakes pushed
\* and the final word_ok, for the token text, the config and round_start.
classify_word(cfg, token_str, round, at) ==
    IF NUMERIC_RE_is_match(token_str)
    THEN IF round = None
         THEN [mistakes |-> <<BadToken(at)>>, word_ok |-> FALSE]
         ELSE [mistakes |-> <<>>, word_ok |-> TRUE]
    ELSE lexical_check(cfg, token_str, at)

\* get_token: the token at an index and its text.
get_token_str(i, toks, src) == Slice(src, toks[i + 1].start, toks[i + 1].end)

InLoop == pc = "run" /\ current < Len(tokens)

CurrentKind == tokens[current + 1].kind

parse_word ==
    /\ InLoop
    /\ CurrentKind = NonDelim
    /\ LET token == tokens[current + 1]
           token_str == get_token_str(current, tokens, source)
           r == classify_word(config, token_str, round_start, current)
       IN /\ mistakes' = mistakes \o r.mistakes
          /\ nodes' = IF r.word_ok THEN Append(nodes, NodeToken(token)) ELSE nodes
    /\ current' = current + 1
    /\ UNCHANGED <<tokenizer, suspended, args, previous, config, source, tokens, round_start, square_start, angle_start, pc>>

----------------------------------------------------------------------------
(* Delimiters *)

\* parse_open_round that records the nested Open as the new round_start.
parse_open_round_overwrite ==
    /\ InLoop
    /\ CurrentKind = Open(Round)
    /\ IF round_start # None
       THEN /\ mistakes' = Append(mistakes,
                                  NestedDelim(Round, Unwrap(round_start), current))
            /\ round_start' = Some(current)
            /\ UNCHANGED nodes
       ELSE /\ round_start' = Some(current)
            /\ nodes' = Append(nodes, NodeOpen(Round))
            /\ UNCHANGED mistakes
    /\ current' = current + 1
    /\ UNCHANGED <<tokenizer, suspended, args, previous, config, source, tokens, square_start, angle_start, pc>>

parse_open_round ==
    /\ InLoop
    /\ CurrentKind = Open(Round)
    /\ IF round_start # None
       THEN /\ mistakes' = Append(mistakes,
                                  NestedDelim(Round, Unwrap(round_start), current))
            /\ UNCHANGED <<round_start, nodes>>
       ELSE /\ round_start' = Some(current)
            /\ nodes' = Append(nodes, NodeOpen(Round))
            /\ UNCHANGED mistakes
    /\ current' = current + 1
    /\ UNCHANGED <<tokenizer, suspended, args, previous, config, source, tokens, square_start, angle_start, pc>>

\* parse_close_round that tests round_start without taking it.
parse_close_round_no_take ==
    /\ InLoop
    /\ CurrentKind = Close(Round)
    /\ IF round_start = None
       THEN /\ mistakes' = Append(mistakes, ClosingUnopenedDelim(Round, current))
            /\ UNCHANGED nodes
       ELSE /\ nodes' = Append(nodes, NodeClose(Round))
            /\ UNCHANGED mistakes
    /\ current' = current + 1
    /\ UNCHANGED <<tokenizer, suspended, args, previous, config, source, tokens, round_start, square_start, angle_start, pc>>

parse_close_round ==
    /\ InLoop
    /\ CurrentKind = Close(Round)
    /\ round_start' = None
    /\ IF round_start = None
       THEN /\ mistakes' = Append(mistakes, ClosingUnopenedDelim(Round, current))
            /\ UNCHANGED nodes
       ELSE /\ nodes' = Append(nodes, NodeClose(Round))
            /\ UNCHANGED mistakes
    /\ current' = current + 1
    /\ UNCHANGED <<tokenizer, suspended, args, previous, config, source, tokens, square_start, angle_start, pc>>

\* parse_open_square that emits Node::Open for a nested Open too.
parse_open_square_node_when_nested ==
    /\ InLoop
    /\ CurrentKind = Open(Square)
    /\ IF square_start # None
       THEN /\ mistakes' = Append(mistakes,
                                  NestedDelim(Square, Unwrap(square_start), current))
            /\ nodes' = Append(nodes, NodeOpen(Square))
            /\ UNCHANGED square_start
       ELSE /\ square_start' = Some(current)
            /\ nodes' = Append(nodes, NodeOpen(Square))
            /\ UNCHANGED mistakes
    /\ current' = current + 1
    /\ UNCHANGED <<tokenizer, suspended, args, previous, config, source, tokens, round_start, angle_start, pc>>

parse_open_square ==
    /\ InLoop
    /\ CurrentKind = Open(Square)
    /\ IF square_start # None
       THEN /\ mistakes' = Append(mistakes,
                                  NestedDelim(Square, Unwrap(square_start), current))
            /\ UNCHANGED <<square_start, nodes>>
       ELSE /\ square_start' = Some(current)
            /\ nodes' = Append(nodes, NodeOpen(Square))
            /\ UNCHANGED mistakes
    /\ current' = current + 1
    /\ UNCHANGED <<tokenizer, suspended, args, previous, config, source, tokens, round_start, angle_start, pc>>

\* parse_close_square that also closes a Round pair opened inside the
\* Square pair it closes.
parse_close_square_closes_inner ==
    /\ InLoop
    /\ CurrentKind = Close(Square)
    /\ square_start' = None
    /\ round_start' = IF /\ square_start # None
                         /\ round_start # None
                         /\ Unwrap(round_start) > Unwrap(square_start)
                      THEN None ELSE round_start
    /\ IF square_start = None
       THEN /\ mistakes' = Append(mistakes, ClosingUnopenedDelim(Square, current))
            /\ UNCHANGED nodes
       ELSE /\ nodes' = Append(nodes, NodeClose(Square))
            /\ UNCHANGED mistakes
    /\ current' = current + 1
    /\ UNCHANGED <<tokenizer, suspended, args, previous, config, source, tokens, angle_start, pc>>

parse_close_square ==
    /\ InLoop
    /\ CurrentKind = Close(Square)
    /\ square_start' = None
    /\ IF square_start = None
       THEN /\ mistakes' = Append(mistakes, ClosingUnopenedDelim(Square, current))
            /\ UNCHANGED nodes
       ELSE /\ nodes' = Append(nodes, NodeClose(Square))
            /\ UNCHANGED mistakes
    /\ current' = current + 1
    /\ UNCHANGED <<tokenizer, suspended, args, previous, config, source, tokens, round_start, angle_start, pc>>

\* A codes loop that records BadAttr for a piece that is not allowed but
\* leaves codes_ok as it is.
RECURSIVE codes_loop_keep_ok(_, _, _, _, _)
codes_loop_keep_ok(cfg, pieces, k, codes, at) ==
    IF k > Len(pieces)
    THEN [codes |-> codes, codes_ok |-> TRUE, mistakes |-> <<>>]
    ELSE LET code == pieces[k]
         IN IF in_after_angle(cfg, code)
            THEN codes_loop_keep_ok(cfg, pieces, k + 1,
                                    IF ~(code = <<>> \/ Contains(codes, code))
                                    THEN Append(codes, code) ELSE codes,
                                    at)
            ELSE LET rest == codes_loop_keep_ok(cfg, pieces, k + 1, codes, at)
                 IN [codes |-> rest.codes,
                     codes_ok |-> rest.codes_ok,
                     mistakes |-> <<BadAttr(code, at)>> \o rest.mistakes]

\* The codes loop of parse_open_angle (lines 298-313) from piece k on, given
\* the codes collected so far.
RECURSIVE codes_loop(_, _, _, _, _)
codes_loop(cfg, pieces, k, codes, at) ==
    IF k > Len(pieces)
    THEN [codes |-> codes, codes_ok |-> TRUE, mistakes |-> <<>>]
    ELSE LET code == pieces[k]
         IN IF in_after_angle(cfg, code)
            THEN codes_loop(cfg, pieces, k + 1,
                            IF ~(code = <<>> \/ Contains(codes, code))
                            THEN Append(codes, code) ELSE codes,
                            at)
            ELSE LET rest == codes_loop(cfg, pieces, k + 1, codes, at)
                 IN [codes |-> rest.codes,
                     codes_ok |-> FALSE,
                     mistakes |-> <<BadAttr(code, at)>> \o rest.mistakes]

\* parse_open_angle that reports MissingAttrs at the index of the Angle-open
\* when there is no token after it.
parse_open_angle_missing_at_open ==
    /\ InLoop
    /\ CurrentKind = Open(Angle)
    /\ LET nested == angle_start # None
           m1 == IF nested
                 THEN Append(mistakes, NestedDelim(Angle, Unwrap(angle_start), current))
                 ELSE mistakes
           n1 == IF nested THEN nodes ELSE Append(nodes, NodeOpen(Angle))
           next == current + 1
       IN /\ angle_start' = IF nested THEN angle_start ELSE Some(current)
          /\ IF next = Len(tokens)
             THEN /\ mistakes' = Append(m1, MissingAttrs(current))
                  /\ nodes' = n1
                  /\ current' = next
             ELSE IF tokens[next + 1].kind # NonDelim
             THEN /\ mistakes' = Append(m1, MissingAttrs(next))
                  /\ nodes' = n1
                  /\ current' = next
             ELSE LET token_str == get_token_str(next, tokens, source)
                      r == codes_loop(config, Split(token_str), 1, <<>>, next)
                  IN /\ mistakes' = m1 \o r.mistakes
                     /\ nodes' = IF r.codes_ok
                                 THEN Append(n1, NodeAttrList(SortStrings(r.codes)))
                                 ELSE n1
                     /\ current' = next + 1
    /\ UNCHANGED <<tokenizer, suspended, args, previous, config, source, tokens, round_start, square_start, pc>>

\* parse_open_angle that returns right after reporting NestedDelim.
parse_open_angle_return_if_nested ==
    /\ InLoop
    /\ CurrentKind = Open(Angle)
    /\ LET nested == angle_start # None
           m1 == IF nested
                 THEN Append(mistakes, NestedDelim(Angle, Unwrap(angle_start), current))
                 ELSE mistakes
           n1 == IF nested THEN nodes ELSE Append(nodes, NodeOpen(Angle))
           next == current + 1
       IN /\ angle_start' = IF nested THEN angle_start ELSE Some(current)
          /\ IF nested
             THEN /\ mistakes' = m1
                  /\ nodes' = n1
                  /\ current' = next
             ELSE IF next = Len(tokens)
             THEN /\ mistakes' = Append(m1, MissingAttrs(next))
                  /\ nodes' = n1
                  /\ current' = next
             ELSE IF tokens[next + 1].kind # NonDelim
             THEN /\ mistakes' = Append(m1, MissingAttrs(next))
                  /\ nodes' = n1
                  /\ current' = next
             ELSE LET token_str == get_token_str(next, tokens, source)
                      r == codes_loop(config, Split(token_str), 1, <<>>, next)
                  IN /\ mistakes' = m1 \o r.mistakes
                     /\ nodes' = IF r.codes_ok
                                 THEN Append(n1, NodeAttrList(SortStrings(r.codes)))
                                 ELSE n1
                     /\ current' = next + 1
    /\ UNCHANGED <<tokenizer, suspended, args, previous, config, source, tokens, round_start, square_start, pc>>

\* parse_open_angle that steps over the token after the Angle-open when it
\* is not NonDelim.
parse_open_angle_skip_next ==
    /\ InLoop
    /\ CurrentKind = Open(Angle)
    /\ LET nested == angle_start # None
           m1 == IF nested
                 THEN Append(mistakes, NestedDelim(Angle, Unwrap(angle_start), current))
                 ELSE mistakes
           n1 == IF nested THEN nodes ELSE Append(nodes, NodeOpen(Angle))
           next == current + 1
       IN /\ angle_start' = IF nested THEN angle_start ELSE Some(current)
          /\ IF next = Len(tokens)
             THEN /\ mistakes' = Append(m1, MissingAttrs(next))
                  /\ nodes' = n1
                  /\ current' = next
             ELSE IF tokens[next + 1].kind # NonDelim
             THEN /\ mistakes' = Append(m1, MissingAttrs(next))
                  /\ nodes' = n1
                  /\ current' = next + 1
             ELSE LET token_str == get_token_str(next, tokens, source)
                      r == codes_loop(config, Split(token_str), 1, <<>>, next)
                  IN /\ mistakes' = m1 \o r.mistakes
                     /\ nodes' = IF r.codes_ok
                                 THEN Append(n1, NodeAttrList(SortStrings(r.codes)))
                                 ELSE n1
                     /\ current' = next + 1
    /\ UNCHANGED <<tokenizer, suspended, args, previous, config, source, tokens, round_start, square_start, pc>>

\* parse_open_angle without the last line (318): the cursor is left on the
\* codes token.
parse_open_angle_codes_not_consumed ==
    /\ InLoop
    /\ CurrentKind = Open(Angle)
    /\ LET nested == angle_start # None
           m1 == IF nested
                 THEN Append(mistakes, NestedDelim(Angle, Unwrap(angle_start), current))
                 ELSE mistakes
           n1 == IF nested THEN nodes ELSE Append(nodes, NodeOpen(Angle))
           next == current + 1
       IN /\ angle_start' = IF nested THEN angle_start ELSE Some(current)
          /\ IF next = Len(tokens)
             THEN /\ mistakes' = Append(m1, MissingAttrs(next))
                  /\ nodes' = n1
                  /\ current' = next
             ELSE IF tokens[next + 1].kind # NonDelim
             THEN /\ mistakes' = Append(m1, MissingAttrs(next))
                  /\ nodes' = n1
                  /\ current' = next
             ELSE LET token_str == get_token_str(next, tokens, source)
                      r == codes_loop(config, Split(token_str), 1, <<>>, next)
                  IN /\ mistakes' = m1 \o r.mistakes
                     /\ nodes' = IF r.codes_ok
                                 THEN Append(n1, NodeAttrList(SortStrings(r.codes)))
                                 ELSE n1
                     /\ current' = next
    /\ UNCHANGED <<tokenizer, suspended, args, previous, config, source, tokens, round_start, square_start, pc>>

\* parse_open_angle that emits Node::Open for a nested Angle-open too.
parse_open_angle_open_node_when_nested ==
    /\ InLoop
    /\ CurrentKind = Open(Angle)
    /\ LET nested == angle_start # None
           m1 == IF nested
                 THEN Append(mistakes, NestedDelim(Angle, Unwrap(angle_start), current))
                 ELSE mistakes
           n1 == Append(nodes, NodeOpen(Angle))
           next == current + 1
       IN /\ angle_start' = IF nested THEN angle_start ELSE Some(current)
          /\ IF next = Len(tokens)
             THEN /\ mistakes' = Append(m1, MissingAttrs(next))
                  /\ nodes' = n1
                  /\ current' = next
             ELSE IF tokens[next + 1].kind # NonDelim
             THEN /\ mistakes' = Append(m1, MissingAttrs(next))
                  /\ nodes' = n1
                  /\ current' = next
             ELSE LET token_str == get_token_str(next, tokens, source)
                      r == codes_loop(config, Split(token_str), 1, <<>>, next)
                  IN /\ mistakes' = m1 \o r.mistakes
                     /\ nodes' = IF r.codes_ok
                                 THEN Append(n1, NodeAttrList(SortStrings(r.codes)))
                                 ELSE n1
                     /\ current' = next + 1
    /\ UNCHANGED <<tokenizer, suspended, args, previous, config, source, tokens, round_start, square_start, pc>>

parse_open_angle ==
    /\ InLoop
    /\ CurrentKind = Open(Angle)
    /\ LET nested == angle_start # None
           m1 == IF nested
                 THEN Append(mistakes, NestedDelim(Angle, Unwrap(angle_start), current))
                 ELSE mistakes
           n1 == IF nested THEN nodes ELSE Append(nodes, NodeOpen(Angle))
           next == current + 1
       IN /\ angle_start' = IF nested THEN angle_start ELSE Some(current)
          /\ IF next = Len(tokens)
             THEN /\ mistakes' = Append(m1, MissingAttrs(next))
                  /\ nodes' = n1
                  /\ current' = next
             ELSE IF tokens[next + 1].kind # NonDelim
             THEN /\ mistakes' = Append(m1, MissingAttrs(next))
                  /\ nodes' = n1
                  /\ current' = next
             ELSE LET token_str == get_token_str(next, tokens, source)
                      r == codes_loop(config, Split(token_str), 1, <<>>, next)
                  IN /\ mistakes' = m1 \o r.mistakes
                     /\ nodes' = IF r.codes_ok
                                 THEN Append(n1, NodeAttrList(SortStrings(r.codes)))
                                 ELSE n1
                     /\ current' = next + 1
    /\ UNCHANGED <<tokenizer, suspended, args, previous, config, source, tokens, round_start, square_start, pc>>

\* parse_close_angle that closes the pair and emits no node.
parse_close_angle_no_node ==
    /\ InLoop
    /\ CurrentKind = Close(Angle)
    /\ angle_start' = None
    /\ IF angle_start = None
       THEN mistakes' = Append(mistakes, ClosingUnopenedDelim(Angle, current))
       ELSE UNCHANGED mistakes
    /\ current' = current + 1
    /\ UNCHANGED <<tokenizer, suspended, args, previous, config, source, tokens, nodes, round_start, square_start, pc>>

parse_close_angle ==
    /\ InLoop
    /\ CurrentKind = Close(Angle)
    /\ angle_start' = None
    /\ IF angle_start = None
       THEN /\ mistakes' = Append(mistakes, ClosingUnopenedDelim(Angle, current))
            /\ UNCHANGED nodes
       ELSE /\ nodes' = Append(nodes, NodeClose(Angle))
            /\ UNCHANGED mistakes
    /\ current' = current + 1
    /\ UNCHANGED <<tokenizer, suspended, args, previous, config, source, tokens, round_start, square_start, pc>>

\* The end of parse (lines 121-143): the loop is over, the unclosed
\* delimiters are reported and the result is returned.
unclosed(opt, kind) ==
    IF opt # None THEN <<UnclosedDelim(kind, Unwrap(opt))>> ELSE <<>>

\* parse_end that reports the unclosed delimiters in the order Angle,
\* Square, Round.
parse_end_reversed ==
    /\ pc = "run"
    /\ ~(current < Len(tokens))
    /\ mistakes' = mistakes \o unclosed(angle_start, Angle)
                            \o unclosed(square_start, Square)
                            \o unclosed(round_start, Round)
    /\ pc' = "done"
    /\ UNCHANGED <<tokenizer, suspended, args, previous, config, source, tokens, current, nodes,
                   round_start, square_start, angle_start>>

parse_end ==
    /\ pc = "run"
    /\ ~(current < Len(tokens))
    /\ mistakes' = mistakes \o unclosed(round_start, Round)
                            \o unclosed(square_start, Square)
                            \o unclosed(angle_start, Angle)
    /\ pc' = "done"
    /\ UNCHANGED <<tokenizer, suspended, args, previous, config, source, tokens, current, nodes,
                   round_start, square_start, angle_start>>

----------------------------------------------------------------------------
(* The segments and the configurations the model validates *)

Item(kind, text) == [kind |-> kind, text |-> text]

Delims ==
    {Item(Open(Round), <<"(">>), Item(Close(Round), <<")">>),
     Item(Open(Square), <<"[">>), Item(Close(Square), <<"]">>),
     Item(Open(Angle), <<"<">>), Item(Close(Angle), <<">">>)}

\* Word texts: a numeral, a word with a digit, words made of the letters
\* a and b, words with the character % (no atom) between letters and after
\* them, the two-byte letter U+017E alone, and an attribute code.
Words ==
    {<<"1", "2">>, <<"a", "1">>,
     <<"a", "b">>, <<"b">>,
     <<"a", "%", "%", "b">>, <<"a", "%">>,
     <<"c5", "be">>,
     <<"S">>}

Vocabulary == Delims \cup {Item(NonDelim, w) : w \in Words}

\* Token sequences of at most MaxTokens tokens.
Inputs == UNION {[1..n -> Vocabulary] : n \in 0..MaxTokens}

\* The byte offset at which item i starts when the texts of the items are
\* written with one space between two of them.
RECURSIVE StartOf(_, _)
StartOf(items, i) ==
    IF i = 1 THEN 0 ELSE StartOf(items, i - 1) + Len(items[i - 1].text) + 1

RECURSIVE JoinSpace(_)
JoinSpace(items) ==
    IF items = <<>> THEN <<>>
    ELSE IF Len(items) = 1 THEN items[1].text
    ELSE items[1].text \o <<" ">> \o JoinSpace(Tail(items))

\* The tokenized segment handed to parse: the normalized source and the
\* tokens with their byte offsets into it.
Tokenized(items) ==
    [source |-> JoinSpace(items),
     tokens |-> [i \in 1..Len(items) |->
                    Token(items[i].kind, StartOf(items, i),
                          StartOf(items, i) + Len(items[i].text))]]

\* The lists a caller gives to from_args, in the caller's order.
Args(whitelist, blacklist, atoms, after_angle) ==
    [whitelist |-> whitelist, blacklist |-> blacklist,
     atoms |-> atoms, after_angle |-> after_angle]

Compile(a) == from_args(a.whitelist, a.blacklist, a.atoms, a.after_angle)

CallerArgs ==
    {Args(<<<<"a", "%">>, <<"a", "b">>, <<"a", "1">>>>,
          <<<<"a", "b">>, <<"b">>>>,
          <<<<"a">>, <<"b">>, <<"1">>>>,
          <<<<"S">>>>),
     Args(<<>>,
          <<<<"b">>>>,
          <<<<"a">>, <<"a", "b">>, <<"1">>>>,
          <<<<"S">>, <<"X">>>>),
     Args(<<>>, <<<<"b">>>>, <<>>, <<>>)}

\* Configurations: the compiled lists.
Configs == {Compile(a) : a \in CallerArgs}

\* Parser::parse, lines 102-115: the parser's state at construction, for a
\* configuration compiled from the caller's lists and a tokenized segment.
Construct(a, items) ==
    /\ args = a
    /\ config = Compile(a)
    /\ source = Tokenized(items).source
    /\ tokens = Tokenized(items).tokens
    /\ current = 0
    /\ mistakes = <<>>
    /\ nodes = <<>>
    /\ round_start = None
    /\ square_start = None
    /\ angle_start = None
    /\ pc = "run"
    /\ previous = None
    /\ suspended = None
    /\ tokenizer = None

Init == \E a \in CallerArgs : \E items \in Inputs : Construct(a, items)

\* Parser::step: the dispatch on the kind of the current token.
step ==
    \/ parse_word
    \/ parse_open_round
    \/ parse_close_round
    \/ parse_open_square
    \/ parse_close_square
    \/ parse_open_angle
    \/ parse_close_angle

Next == step \/ parse_end

Spec == Init /\ [][Next]_vars

\* Segments for the run of the loop to its end: the brackets, a numeral, an
\* atom and a code.
LoopWords == {<<"1">>, <<"a">>, <<"S">>}

LoopVocabulary == Delims \cup {Item(NonDelim, w) : w \in LoopWords}

LoopInputs == UNION {[1..n -> LoopVocabulary] : n \in 0..MaxTokens}

InitLoop == \E a \in CallerArgs : \E items \in LoopInputs : Construct(a, items)

\* Parser::parse runs its loop without interruption: a step that can be
\* taken is taken.
FairSpec == InitLoop /\ [][Next]_vars /\ WF_vars(Next)

----------------------------------------------------------------------------
(* A second call of Parser::parse with the same configuration and segment *)

\* parse_again that builds the second parser with the open indices the
\* first one ended with.
parse_again_keep_open ==
    /\ pc = "done"
    /\ previous = None
    /\ previous' = Some([nodes |-> nodes, mistakes |-> mistakes])
    /\ current' = 0 /\ mistakes' = <<>> /\ nodes' = <<>>
    /\ pc' = "run"
    /\ UNCHANGED <<tokenizer, suspended, args, config, source, tokens,
                   round_start, square_start, angle_start>>

\* The first call has returned its nodes and mistakes; the caller keeps
\* them and calls Parser::parse again: lines 102-115 build a new parser for
\* the same configuration and the same tokenized segment.
parse_again ==
    /\ pc = "done"
    /\ previous = None
    /\ previous' = Some([nodes |-> nodes, mistakes |-> mistakes])
    /\ current' = 0 /\ mistakes' = <<>> /\ nodes' = <<>>
    /\ round_start' = None /\ square_start' = None /\ angle_start' = None
    /\ pc' = "run"
    /\ UNCHANGED <<tokenizer, suspended, args, config, source, tokens>>

NextTwice == Next \/ parse_again

SpecTwice == Init /\ [][NextTwice]_vars

----------------------------------------------------------------------------
(* Segments and configurations for the attribute lists after an Angle-open *)

\* Codes tokens: one code, two codes, a repeated code in another order, a
\* code that no list holds, an empty piece, two codes written together;
\* and a plain word.
AngleWords ==
    {<<"S">>, <<"S", "_", "M">>, <<"M", "_", "S", "_", "S">>,
     <<"S", "_", "X">>, <<"_", "S">>, <<"S", "M">>,
     <<"a">>}

AngleVocabulary == Delims \cup {Item(NonDelim, w) : w \in AngleWords}

AngleInputs == UNION {[1..n -> AngleVocabulary] : n \in 0..MaxTokens}

\* After-angle lists: two codes (with the word SM whitelisted and the word a
\* blacklisted), none, and a list that holds the empty string beside a code.
AngleCallerArgs ==
    {Args(<<<<"S", "M">>>>, <<<<"a">>>>, <<<<"a">>>>, <<<<"S">>, <<"M">>>>),
     Args(<<>>, <<>>, <<<<"a">>>>, <<>>),
     Args(<<>>, <<>>, <<<<"a">>>>, <<<<>>, <<"S">>>>)}

InitAngle == \E a \in AngleCallerArgs : \E items \in AngleInputs : Construct(a, items)

SpecAngle == InitAngle /\ [][Next]_vars

\* Segments that begin with an Angle-open and go on with any segment of
\* AngleInputs, so that a second Angle-open can come after another node.
NestedInputs == {<<Item(Open(Angle), <<"<">>)>> \o items : items \in AngleInputs}

InitNested == \E a \in AngleCallerArgs : \E items \in NestedInputs : Construct(a, items)

SpecNested == InitNested /\ [][Next]_vars

----------------------------------------------------------------------------
(* Two segments validated against one shared configuration *)

\* The fields a Parser owns (struct Parser, lines 87-99); config is a
\* shared reference and is not among them.
ParserState ==
    [source |-> source, tokens |-> tokens, current |-> current,
     nodes |-> nodes, mistakes |-> mistakes,
     round_start |-> round_start, square_start |-> square_start,
     angle_start |-> angle_start, pc |-> pc]

\* Parser::parse, lines 102-115, for the second segment.
NewParser(items) ==
    [source |-> Tokenized(items).source, tokens |-> Tokenized(items).tokens,
     current |-> 0, nodes |-> <<>>, mistakes |-> <<>>,
     round_start |-> None, square_start |-> None, angle_start |-> None,
     pc |-> "run"]

\* The second segments: a numeral in an unclosed Round pair, a numeral
\* before a Round-close, and a code in an Angle pair.
OtherInputs ==
    {<<Item(Open(Round), <<"(">>), Item(NonDelim, <<"1">>)>>,
     <<Item(NonDelim, <<"1">>), Item(Close(Round), <<")">>)>>,
     <<Item(Open(Angle), <<"<">>), Item(NonDelim, <<"S">>),
       Item(Close(Angle), <<">">>)>>}

SharedArgs ==
    {Args(<<<<"a", "1">>>>, <<<<"a">>>>, <<<<"a">>, <<"1">>>>, <<<<"S">>>>)}

InitShared ==
    \E a \in SharedArgs : \E items \in LoopInputs : \E second \in OtherInputs :
        /\ args = a
        /\ config = Compile(a)
        /\ source = NewParser(items).source
        /\ tokens = NewParser(items).tokens
        /\ current = 0
        /\ mistakes = <<>>
        /\ nodes = <<>>
        /\ round_start = None
        /\ square_start = None
        /\ angle_start = None
        /\ pc = "run"
        /\ previous = None
        /\ suspended = Some(NewParser(second))
        /\ tokenizer = None

\* Parsers whose round_start is one location that both of them use.
switch_shared_round_start ==
    /\ suspended # None
    /\ previous = None
    /\ LET o == Unwrap(suspended)
       IN /\ source' = o.source
          /\ tokens' = o.tokens
          /\ current' = o.current
          /\ nodes' = o.nodes
          /\ mistakes' = o.mistakes
          /\ square_start' = o.square_start
          /\ angle_start' = o.angle_start
          /\ pc' = o.pc
    /\ suspended' = Some(ParserState)
    /\ UNCHANGED <<tokenizer, args, previous, config, round_start>>

\* The thread that runs next is the one validating the other segment: each
\* Parser owns its fields (lines 87-99), so the running thread's steps now
\* act on the other Parser's fields and on the same config.
switch ==
    /\ suspended # None
    /\ previous = None
    /\ LET o == Unwrap(suspended)
       IN /\ source' = o.source
          /\ tokens' = o.tokens
          /\ current' = o.current
          /\ nodes' = o.nodes
          /\ mistakes' = o.mistakes
          /\ round_start' = o.round_start
          /\ square_start' = o.square_start
          /\ angle_start' = o.angle_start
          /\ pc' = o.pc
    /\ suspended' = Some(ParserState)
    /\ UNCHANGED <<tokenizer, args, previous, config>>

\* Both validations have returned.  The caller keeps the result of one of
\* them and validates its segment once more, alone, against a configuration
\* compiled from the same lists (lines 25-52, 102-115).
parse_alone ==
    /\ pc = "done"
    /\ suspended # None
    /\ Unwrap(suspended).pc = "done"
    /\ previous = None
    /\ previous' = Some([nodes |-> nodes, mistakes |-> mistakes])
    /\ suspended' = None
    /\ config' = Compile(args)
    /\ current' = 0 /\ mistakes' = <<>> /\ nodes' = <<>>
    /\ round_start' = None /\ square_start' = None /\ angle_start' = None
    /\ pc' = "run"
    /\ UNCHANGED <<tokenizer, args, source, tokens>>

NextShared == step \/ parse_end \/ switch \/ parse_alone

SpecShared == InitShared /\ [][NextShared]_vars

----------------------------------------------------------------------------
(* The tokenizer (tokenizer.rs) *)

\* A text is a sequence of bytes, as in the parser.  The whitespace of the
\* texts is the space and the tab ("09"); the letter U+010D is the two bytes
\* "c4", "8d" and is one grapheme.
WhitespaceBytes == {" ", "09"}

LeadBytes == {"c4"}

\* WHITESPACE (\s+), line 11, on one character.
WHITESPACE_is_match(b) == b \in WhitespaceBytes

\* WHITESPACE.replace_all(text, " ") that replaces every whitespace
\* character, not every run of them.
replace_all_each_char(text) ==
    [i \in 1..Len(text) |-> IF WHITESPACE_is_match(text[i]) THEN " " ELSE text[i]]

\* WHITESPACE.replace_all(text, " "), line 81: every maximal run of
\* whitespace becomes one space.
replace_all(text) ==
    LET out[i \in 0..Len(text)] ==
            IF i = 0 THEN <<>>
            ELSE IF ~WHITESPACE_is_match(text[i]) THEN Append(out[i - 1], text[i])
            ELSE IF i > 1 /\ WHITESPACE_is_match(text[i - 1]) THEN out[i - 1]
            ELSE Append(out[i - 1], " ")
    IN out[Len(text)]

\* str::trim, line 82.
trim(text) ==
    LET keep == {i \in 1..Len(text) : ~WHITESPACE_is_match(text[i])}
    IN IF keep = {} THEN <<>>
       ELSE LET first == CHOOSE i \in keep : \A j \in keep : i <= j
                last == CHOOSE i \in keep : \A j \in keep : j <= i
            IN SubSeq(text, first, last)

\* str::grapheme_indices(true), line 89: the graphemes of the text with the
\* byte offset of each.
grapheme_indices(text) ==
    LET iter[p \in 0..Len(text)] ==
            IF p >= Len(text) THEN <<>>
            ELSE LET n == IF text[p + 1] \in LeadBytes /\ p + 2 <= Len(text)
                          THEN 2 ELSE 1
                 IN <<[index |-> p, grapheme |-> SubSeq(text, p + 1, p + n)]>>
                    \o iter[p + n]
    IN iter[0]

\* TokenKind of the tokenizer (crate::TokenKind, line 7).
Word == <<"Word">>
Special == <<"Special">>
OpenSquare == <<"OpenSquare">>
CloseSquare == <<"CloseSquare">>
UnexpectedGrapheme == <<"UnexpectedGrapheme">>

\* str2graphemes, lines 32-34.
str2graphemes(string) ==
    LET gs == grapheme_indices(string)
    IN {gs[i].grapheme : i \in 1..Len(gs)}

\* str2substrings, lines 36-38: the pieces between whitespace.
str2substrings(string) ==
    {SubSeq(string, a, b) : <<a, b>> \in
        {r \in (1..Len(string)) \X (1..Len(string)) :
            /\ r[1] <= r[2]
            /\ \A i \in r[1]..r[2] : ~WHITESPACE_is_match(string[i])
            /\ r[1] = 1 \/ WHITESPACE_is_match(string[r[1] - 1])
            /\ r[2] = Len(string) \/ WHITESPACE_is_match(string[r[2] + 1])}}

\* Conf::new, lines 41-68.
Conf_new(word_graphemes, delim_graphemes, special_toks, para_codes) ==
    [word_graphemes |-> str2graphemes(word_graphemes),
     delim_graphemes |-> str2graphemes(delim_graphemes) \cup {<<" ">>},
     special_toks |-> str2substrings(special_toks),
     special_graphemes |-> {g \in str2graphemes(special_toks) :
                               ~(\E i \in 1..Len(g) : WHITESPACE_is_match(g[i]))},
     para_codes |-> str2substrings(para_codes)]

\* Segment::new and Segment::push_token (crate::Segment, line 7).
Segment_new(text) == [text |-> text, tokens |-> <<>>]

push_token(segment, kind, start, end) ==
    [segment EXCEPT !.tokens = Append(@, Token(kind, start, end))]

\* Tokenizer::leave_delim, lines 101-124.
leave_delim(t, index, grapheme) ==
    IF grapheme = <<"[">>
    THEN [t EXCEPT !.segment = push_token(@, OpenSquare, index, index + 1),
                   !.state = "OpenBracket"]
    ELSE IF grapheme \in t.conf.special_graphemes
    THEN [t EXCEPT !.curr_tok_start = index, !.state = "InsideSpecial"]
    ELSE IF grapheme \in t.conf.word_graphemes
    THEN [t EXCEPT !.curr_tok_start = index, !.state = "InsideWord"]
    ELSE [t EXCEPT !.segment = push_token(@, UnexpectedGrapheme, index,
                                          index + Len(grapheme)),
                   !.state = "Delim"]

\* What lines 131-142 and 150-161 do with the grapheme that ends a token.
after_token(t, index, grapheme) ==
    IF grapheme = <<"]">>
    THEN [t EXCEPT !.segment = push_token(@, CloseSquare, index, index + 1),
                   !.state = "CloseBracket"]
    ELSE IF grapheme \in t.conf.delim_graphemes
    THEN [t EXCEPT !.state = "Delim"]
    ELSE [t EXCEPT !.segment = push_token(@, UnexpectedGrapheme, index,
                                          index + Len(grapheme)),
                   !.state = "Delim"]

\* Tokenizer::leave_inside_word, lines 126-143.
leave_inside_word(t, index, grapheme) ==
    IF grapheme \in t.conf.word_graphemes
    THEN [t EXCEPT !.state = "InsideWord"]
    ELSE after_token([t EXCEPT !.segment =
                         push_token(@, Word, t.curr_tok_start, index)],
                     index, grapheme)

\* Tokenizer::leave_inside_special, lines 145-162.
leave_inside_special(t, index, grapheme) ==
    IF grapheme \in t.conf.special_graphemes
    THEN [t EXCEPT !.state = "InsideSpecial"]
    ELSE after_token([t EXCEPT !.segment =
                         push_token(@, Special, t.curr_tok_start, index)],
                     index, grapheme)

\* Tokenizer::leave_open_bracket, lines 164-180.
leave_open_bracket(t, index, grapheme) ==
    IF grapheme \in t.conf.special_graphemes
    THEN [t EXCEPT !.curr_tok_start = index, !.state = "InsideSpecial"]
    ELSE IF grapheme \in t.conf.word_graphemes
    THEN [t EXCEPT !.curr_tok_start = index, !.state = "InsideWord"]
    ELSE [t EXCEPT !.segment = push_token(@, UnexpectedGrapheme, index,
                                          index + Len(grapheme)),
                   !.state = "Delim"]

\* Tokenizer::leave_close_bracket, lines 182-191.
leave_close_bracket(t, index, grapheme) ==
    IF grapheme \in t.conf.delim_graphemes
    THEN [t EXCEPT !.state = "Delim"]
    ELSE [t EXCEPT !.segment = push_token(@, UnexpectedGrapheme, index,
                                          index + Len(grapheme)),
                   !.state = "InsideWord"]

\* No validation runs while a text is tokenized.
ParserIdle ==
    /\ args = Args(<<>>, <<>>, <<>>, <<>>)
    /\ config = Compile(args)
    /\ source = <<>>
    /\ tokens = <<>>
    /\ current = 0
    /\ mistakes = <<>>
    /\ nodes = <<>>
    /\ round_start = None
    /\ square_start = None
    /\ angle_start = None
    /\ pc = "idle"
    /\ previous = None
    /\ suspended = None

ParserVars ==
    <<args, previous, config, source, tokens, current, nodes, mistakes,
      round_start, square_start, angle_start, pc, suspended>>

\* Tokenizer::tokenize is called with a text and a configuration
\* (line 79); nothing of its body has run.
Call(text, conf) ==
    [text |-> text, conf |-> conf, segment |-> Segment_new(<<>>),
     state |-> "Delim", curr_tok_start |-> 0, graphemes |-> <<>>,
     pc |-> "call", first |-> None]

\* Tokenizer::tokenize, lines 81-88: the text is normalized and the
\* Tokenizer is built over it; line 89 starts the iteration.
tokenize ==
    /\ tokenizer.pc = "call"
    /\ LET text == trim(replace_all(tokenizer.text))
       IN tokenizer' = [tokenizer EXCEPT !.segment = Segment_new(text),
                                         !.state = "Delim",
                                         !.curr_tok_start = 0,
                                         !.graphemes = grapheme_indices(text),
                                         !.pc = "loop"]
    /\ UNCHANGED ParserVars

\* The item the iterator of line 89 gives next.
ig == Head(tokenizer.graphemes)

\* One turn of the loop of lines 89-97 in the state given; left is the
\* Tokenizer as the leave_ method of that state leaves it.
Turn(state, left) ==
    /\ tokenizer.pc = "loop"
    /\ tokenizer.graphemes # <<>>
    /\ tokenizer.state = state
    /\ tokenizer' = [left EXCEPT !.graphemes = Tail(@)]
    /\ UNCHANGED ParserVars

tokenize_delim ==
    Turn("Delim", leave_delim(tokenizer, ig.index, ig.grapheme))

tokenize_inside_word ==
    Turn("InsideWord", leave_inside_word(tokenizer, ig.index, ig.grapheme))

tokenize_inside_special ==
    Turn("InsideSpecial", leave_inside_special(tokenizer, ig.index, ig.grapheme))

tokenize_open_bracket ==
    Turn("OpenBracket", leave_open_bracket(tokenizer, ig.index, ig.grapheme))

tokenize_close_bracket ==
    Turn("CloseBracket", leave_close_bracket(tokenizer, ig.index, ig.grapheme))

\* Line 98: the iteration is over and the segment is returned.
tokenize_return ==
    /\ tokenizer.pc = "loop"
    /\ tokenizer.graphemes = <<>>
    /\ tokenizer' = [tokenizer EXCEPT !.pc = "returned"]
    /\ UNCHANGED ParserVars

\* The caller keeps the text it gave and the segment returned, and calls
\* Tokenizer::tokenize with the text of that segment and the same
\* configuration.
tokenize_again ==
    /\ tokenizer.pc = "returned"
    /\ tokenizer.first = None
    /\ tokenizer' = [Call(tokenizer.segment.text, tokenizer.conf)
                        EXCEPT !.first = Some([text |-> tokenizer.text,
                                               segment |-> tokenizer.segment])]
    /\ UNCHANGED ParserVars

\* The graphemes of the texts: space, tab, the letters a and U+010D, the
\* brackets [, ] and (, the special @ and the character %.
TextGraphemes ==
    {<<" ">>, <<"09">>, <<"a">>, <<"c4", "8d">>, <<"[">>, <<"]">>, <<"(">>,
     <<"@">>, <<"%">>}

RECURSIVE Flatten(_)
Flatten(gs) == IF gs = <<>> THEN <<>> ELSE Head(gs) \o Flatten(Tail(gs))

Texts == {Flatten(gs) : gs \in UNION {[1..n -> TextGraphemes] : n \in 0..MaxGraphemes}}

\* The configuration of the test (line 200) with the letters of the texts,
\* and one whose word graphemes are every grapheme of the texts that is
\* neither whitespace nor a Square bracket.
Confs ==
    {Conf_new(<<"a", "c4", "8d">>, <<" ">>, <<"@">>, <<>>),
     Conf_new(<<"a", "c4", "8d", "(", "@", "%">>, <<" ">>, <<>>, <<>>)}

InitTokenizer ==
    /\ ParserIdle
    /\ \E text \in Texts : \E conf \in Confs : tokenizer = Call(text, conf)

NextTokenizer ==
    \/ tokenize
    \/ tokenize_delim
    \/ tokenize_inside_word
    \/ tokenize_inside_special
    \/ tokenize_open_bracket
    \/ tokenize_close_bracket
    \/ tokenize_return
    \/ tokenize_again

SpecTokenizer == InitTokenizer /\ [][NextTokenizer]_vars

----------------------------------------------------------------------------
(* Properties of parse_word *)

\* The next step classifies the current token as a word.  (A NonDelim token
\* right after an Angle-open is consumed by parse_open_angle in the same
\* step as the Angle-open, so current never rests on it.)
WordStep == InLoop /\ CurrentKind = NonDelim

CurrentToken == tokens[current + 1]
CurrentStr == get_token_str(current, tokens, source)

\* The text of the token at index i.
TokenStr(i) == get_token_str(i, tokens, source)

Accepted == nodes' = Append(nodes, NodeToken(CurrentToken)) /\ mistakes' = mistakes
RejectedBadToken == nodes' = nodes /\ mistakes' = Append(mistakes, BadToken(current))

\* C1: a numeral word token is accepted (Node::Token, no mistake) exactly
\* when round_start is set, whatever square_start and angle_start are; with
\* no Round open it records exactly one BadToken{at: its index} and no node.
C1_NumeralNeedsRound ==
    [][(WordStep /\ NumericForm(CurrentStr)) =>
          IF round_start # None THEN Accepted ELSE RejectedBadToken]_vars

\* A numeral was accepted inside Round while Square is open too.
C1_Witness ==
    /\ current = 3
    /\ tokens[3].kind = NonDelim
    /\ TokenStr(2) = <<"1", "2">>
    /\ round_start # None
    /\ square_start # None
    /\ nodes = <<NodeOpen(Square), NodeOpen(Round), NodeToken(tokens[3])>>
    /\ mistakes = <<>>

\* The outcome of the whitelist, blacklist and atom checks for the current
\* token.
GoesOnToLexicalChecks ==
    LET r == lexical_check(config, CurrentStr, current)
    IN /\ mistakes' = mistakes \o r.mistakes
       /\ nodes' = IF r.word_ok THEN Append(nodes, NodeToken(CurrentToken)) ELSE nodes

\* C2: a word token is classified as a numeral only if the whole token has
\* the numeral form; a token that only contains a digit is not a numeral
\* and goes on to the whitelist, blacklist and atom checks.
C2_NumeralIsWholeToken ==
    [][(WordStep /\ ~NumericForm(CurrentStr)) => GoesOnToLexicalChecks]_vars

\* C3: a non-numeral word token that exactly matches a whitelist entry is
\* accepted verbatim, whatever the blacklist and the atoms say.
C3_WhitelistBypasses ==
    [][(WordStep /\ ~NumericForm(CurrentStr) /\ in_whitelist(config, CurrentStr))
          => Accepted]_vars

\* Where C3 holds: a word token that the numeral test does not match and
\* that matches a whitelist entry is accepted, whatever the blacklist and
\* the atoms say.
WhitelistBypassesWithoutDigit ==
    [][(WordStep /\ ~NUMERIC_RE_is_match(CurrentStr) /\ in_whitelist(config, CurrentStr))
          => Accepted]_vars

\* C4 as stated: a non-numeral word token that matches both a blacklist entry
\* and a whitelist entry is rejected with BadToken and emits no node.
C4_BlacklistBeforeWhitelist ==
    [][(/\ WordStep
        /\ ~NumericForm(CurrentStr)
        /\ in_blacklist(config, CurrentStr)
        /\ in_whitelist(config, CurrentStr)) => RejectedBadToken]_vars

\* C4 amended: the whitelist is checked before the blacklist: a word token
\* that the numeral test does not match and that matches both a blacklist
\* entry and a whitelist entry is accepted (Node::Token, no mistake).
C4_WhitelistBeforeBlacklist ==
    [][(/\ WordStep
        /\ ~NUMERIC_RE_is_match(CurrentStr)
        /\ in_blacklist(config, CurrentStr)
        /\ in_whitelist(config, CurrentStr)) => Accepted]_vars

\* A token in both lists was classified and accepted.
C4_Witness ==
    /\ current = 1
    /\ tokens[1].kind = NonDelim
    /\ in_blacklist(config, TokenStr(0))
    /\ in_whitelist(config, TokenStr(0))
    /\ nodes = <<NodeToken(tokens[1])>>
    /\ mistakes = <<>>

\* C5: a word token for which the atom check records a BadSubstr is still
\* emitted as Node::Token, and a token rejected with BadToken is never
\* emitted as a node.
C5_BadSubstrKeepsNode ==
    \A k \in 1..Len(mistakes) :
        LET m == mistakes[k]
        IN /\ m.mistake = "BadSubstr" =>
                 \E n \in 1..Len(nodes) : nodes[n] = NodeToken(tokens[m.at + 1])
           /\ m.mistake = "BadToken" =>
                 \A n \in 1..Len(nodes) : nodes[n] # NodeToken(tokens[m.at + 1])

\* The current token reaches the atom check of parse_word.
ReachesAtomCheck ==
    /\ WordStep
    /\ ~NUMERIC_RE_is_match(CurrentStr)
    /\ ~in_whitelist(config, CurrentStr)
    /\ ~in_blacklist(config, CurrentStr)

\* The bytes of the current token that the atom matches cover.
CoveredBytes ==
    LET matches == find_iter(config.atoms.alts, CurrentStr, 0)
    IN {p \in 0..(Len(CurrentStr) - 1) :
           \E k \in 1..Len(matches) : matches[k].start <= p /\ p < matches[k].end}

\* One BadSubstr per maximal run of uncovered bytes at or after byte p, in
\* order, with the run's own offsets.
RECURSIVE UncoveredRuns(_)
UncoveredRuns(p) ==
    IF p >= Len(CurrentStr) THEN <<>>
    ELSE IF p \in CoveredBytes THEN UncoveredRuns(p + 1)
    ELSE LET e == CHOOSE q \in (p + 1)..Len(CurrentStr) :
                     /\ \A r \in p..(q - 1) : r \notin CoveredBytes
                     /\ q = Len(CurrentStr) \/ q \in CoveredBytes
         IN <<BadSubstr(p, e, current)>> \o UncoveredRuns(e)

\* C6: for a word token checked against atoms, the mistakes recorded are
\* exactly one BadSubstr per maximal run of bytes that no atom match covers
\* (before the first match, between matches, after the last match), with
\* the run's offsets relative to the token's start.
C6_OneMistakePerUncoveredRun ==
    [][(ReachesAtomCheck /\ config.atoms.is_some)
          => mistakes' = mistakes \o UncoveredRuns(0)]_vars

\* C7 as stated: with no atoms configured a word token that is neither a
\* numeral, whitelisted nor blacklisted records a single BadSubstr covering
\* the whole token.
C7_NoAtomsWholeTokenGap ==
    [][(/\ WordStep
        /\ ~config.atoms.is_some
        /\ ~NumericForm(CurrentStr)
        /\ ~in_whitelist(config, CurrentStr)
        /\ ~in_blacklist(config, CurrentStr))
          => mistakes' = Append(mistakes, BadSubstr(0, Len(CurrentStr), current))]_vars

\* C7 amended: with no atoms configured the atom check is off: a word token
\* that the numeral test does not match and that is neither whitelisted nor
\* blacklisted records no mistake and is emitted as Node::Token.
C7_NoAtomsNoCheck ==
    [][(ReachesAtomCheck /\ ~config.atoms.is_some) => Accepted]_vars

\* A word of letters was accepted under a configuration without atoms.
C7_Witness ==
    /\ ~config.atoms.is_some
    /\ current = 1
    /\ tokens[1].kind = NonDelim
    /\ TokenStr(0) = <<"a", "%", "%", "b">>
    /\ nodes = <<NodeToken(tokens[1])>>
    /\ mistakes = <<>>

----------------------------------------------------------------------------
(* Properties of the delimiters *)

\* The open index of a kind.
OpenIndex(kind) ==
    CASE kind = Round -> round_start
      [] kind = Square -> square_start
      [] kind = Angle -> angle_start

\* The nodes and the mistakes a step appends.
NewNodes == SubSeq(nodes', Len(nodes) + 1, Len(nodes'))
NewMistakes == SubSeq(mistakes', Len(mistakes) + 1, Len(mistakes'))
AppendOnly ==
    /\ Len(nodes') >= Len(nodes)
    /\ SubSeq(nodes', 1, Len(nodes)) = nodes
    /\ Len(mistakes') >= Len(mistakes)
    /\ SubSeq(mistakes', 1, Len(mistakes)) = mistakes

\* C8: for each kind, an Open token met while the kind's open index is set
\* records NestedDelim{kind, outermost_start: that index, at: current},
\* emits no Node::Open and leaves the open index as it is (for Round and
\* Square it does nothing else).
C8_NestedKeepsOutermost ==
    [][\A kind \in DelimKind :
          (InLoop /\ CurrentKind = Open(kind) /\ OpenIndex(kind) # None) =>
             /\ AppendOnly
             /\ NewMistakes # <<>>
             /\ Head(NewMistakes) =
                   NestedDelim(kind, Unwrap(OpenIndex(kind)), current)
             /\ \A n \in 1..Len(NewNodes) : NewNodes[n].node # "Open"
             /\ OpenIndex(kind)' = OpenIndex(kind)
             /\ kind # Angle => (Len(NewMistakes) = 1 /\ nodes' = nodes)]_vars

\* The kinds of the tokens.
Kinds == [i \in 1..Len(tokens) |-> tokens[i].kind]

\* The segment `)((` validated to the end.
C8_Witness ==
    /\ pc = "done"
    /\ Kinds = <<Close(Round), Open(Round), Open(Round)>>
    /\ nodes = <<NodeOpen(Round)>>
    /\ mistakes = <<ClosingUnopenedDelim(Round, 0),
                    NestedDelim(Round, 1, 2),
                    UnclosedDelim(Round, 1)>>

\* C9: a Close token of a kind with no open index records
\* ClosingUnopenedDelim{kind, at: current}, emits no node and leaves every
\* open index as it is; a Close token of a kind whose open index is set
\* clears that index, emits Node::Close(kind) and records no mistake.
C9_CloseUnopenedOrClear ==
    [][\A kind \in DelimKind :
          (InLoop /\ CurrentKind = Close(kind)) =>
             IF OpenIndex(kind) = None
             THEN /\ mistakes' = Append(mistakes, ClosingUnopenedDelim(kind, current))
                  /\ nodes' = nodes
                  /\ \A other \in DelimKind : OpenIndex(other)' = OpenIndex(other)
             ELSE /\ OpenIndex(kind)' = None
                  /\ nodes' = Append(nodes, NodeClose(kind))
                  /\ mistakes' = mistakes]_vars

\* The segment `())`: the first Close closed the Round, the second found
\* none open.
C9_Witness ==
    /\ current = 3
    /\ Kinds = <<Open(Round), Close(Round), Close(Round)>>
    /\ round_start = None
    /\ nodes = <<NodeOpen(Round), NodeClose(Round)>>
    /\ mistakes = <<ClosingUnopenedDelim(Round, 2)>>

\* The Open tokens of a kind that come after the last Close token of the
\* kind: the first of them is the outermost Open still open.
StillOpen(kind) ==
    {i \in 0..(Len(tokens) - 1) :
        /\ tokens[i + 1].kind = Open(kind)
        /\ \A j \in i..(Len(tokens) - 1) : tokens[j + 1].kind # Close(kind)}

Outermost(kind) == CHOOSE i \in StillOpen(kind) : \A j \in StillOpen(kind) : i <= j

ExpectedUnclosed(kind) ==
    IF StillOpen(kind) # {} THEN <<UnclosedDelim(kind, Outermost(kind))>> ELSE <<>>

\* C10: at the end of input the mistakes end with exactly one UnclosedDelim
\* for each kind still open, at = the index of its outermost still open
\* Open token, in the order Round, Square, Angle, after every mistake of
\* the pass; there is no other UnclosedDelim.
C10_UnclosedAtEnd ==
    pc = "done" =>
       LET exp == ExpectedUnclosed(Round) \o ExpectedUnclosed(Square)
                  \o ExpectedUnclosed(Angle)
           n == Len(mistakes) - Len(exp)
       IN /\ n >= 0
          /\ SubSeq(mistakes, n + 1, Len(mistakes)) = exp
          /\ \A k \in 1..n : mistakes[k].mistake # "UnclosedDelim"
          /\ \A kind \in DelimKind :
                IF StillOpen(kind) = {} THEN OpenIndex(kind) = None
                ELSE OpenIndex(kind) = Some(Outermost(kind))

\* The segment `< [ (` validated to the end: opened in the order Angle,
\* Square, Round and reported in the order Round, Square, Angle, after the
\* MissingAttrs of the pass.
C10_Witness ==
    /\ pc = "done"
    /\ Kinds = <<Open(Angle), Open(Square), Open(Round)>>
    /\ mistakes = <<MissingAttrs(1), UnclosedDelim(Round, 2),
                    UnclosedDelim(Square, 1), UnclosedDelim(Angle, 0)>>

----------------------------------------------------------------------------
(* Properties of the attribute list after an Angle-open *)

\* The next step is parse_open_angle.
AngleOpenStep == InLoop /\ CurrentKind = Open(Angle)

\* The token after the current one is missing or is not NonDelim.
NoCodesToken ==
    \/ current + 1 = Len(tokens)
    \/ tokens[current + 2].kind # NonDelim

\* The new mistakes after the NestedDelim of a nested Open, if any.
AttrMistakes ==
    IF NewMistakes # <<>> /\ Head(NewMistakes).mistake = "NestedDelim"
    THEN Tail(NewMistakes) ELSE NewMistakes

\* The new nodes after the Node::Open of an accepted Open, if any.
AttrNodes ==
    IF NewNodes # <<>> /\ Head(NewNodes).node = "Open"
    THEN Tail(NewNodes) ELSE NewNodes

\* C11: an Angle-open at index i whose token i+1 does not exist or is not
\* NonDelim records MissingAttrs{at: i+1} (the number of tokens at the end of
\* the stream), records no BadAttr, emits no AttrList and leaves the cursor
\* on token i+1, which the next step dispatches by its own kind.
C11_MissingAttrsNotConsumed ==
    [][(AngleOpenStep /\ NoCodesToken) =>
          /\ AppendOnly
          /\ AttrMistakes = <<MissingAttrs(current + 1)>>
          /\ AttrNodes = <<>>
          /\ current' = current + 1
          /\ pc' = "run"]_vars

\* The segment `><<` validated to the end, with its five mistakes.
C11_Witness ==
    /\ pc = "done"
    /\ Kinds = <<Close(Angle), Open(Angle), Open(Angle)>>
    /\ nodes = <<NodeOpen(Angle)>>
    /\ mistakes = <<ClosingUnopenedDelim(Angle, 0),
                    MissingAttrs(2),
                    NestedDelim(Angle, 1, 2),
                    MissingAttrs(3),
                    UnclosedDelim(Angle, 1)>>

\* C12: an Angle-open reported as NestedDelim does not trigger the parsing
\* of an attribute list: the step records the NestedDelim and nothing else,
\* emits no node and does not consume the following token.
C12_NestedSkipsAttrs ==
    [][(AngleOpenStep /\ angle_start # None) =>
          /\ mistakes' = Append(mistakes,
                                NestedDelim(Angle, Unwrap(angle_start), current))
          /\ nodes' = nodes
          /\ current' = current + 1]_vars

\* C12, as the code has it: every Angle-open triggers the parsing of an
\* attribute list, one reported as NestedDelim too.  After its NestedDelim
\* the step records MissingAttrs when no codes token follows; otherwise it
\* consumes the following token as the codes token and either records
\* BadAttr mistakes at that token or emits one AttrList.
C12_NestedParsesAttrs ==
    [][(AngleOpenStep /\ angle_start # None) =>
          /\ AppendOnly
          /\ NewMistakes # <<>>
          /\ Head(NewMistakes) = NestedDelim(Angle, Unwrap(angle_start), current)
          /\ IF NoCodesToken
             THEN /\ Tail(NewMistakes) = <<MissingAttrs(current + 1)>>
                  /\ NewNodes = <<>>
                  /\ current' = current + 1
             ELSE /\ current' = current + 2
                  /\ \A k \in 2..Len(NewMistakes) :
                        /\ NewMistakes[k].mistake = "BadAttr"
                        /\ NewMistakes[k].at = current + 1
                  /\ IF Len(NewMistakes) = 1
                     THEN Len(NewNodes) = 1 /\ NewNodes[1].node = "AttrList"
                     ELSE NewNodes = <<>>]_vars

\* The segment `< < S` validated to the end: the second Angle-open is
\* nested and S is consumed as its codes token.
C12_Witness ==
    /\ pc = "done"
    /\ Kinds = <<Open(Angle), Open(Angle), NonDelim>>
    /\ TokenStr(2) = <<"S">>
    /\ nodes = <<NodeOpen(Angle), NodeAttrList(<< <<"S">> >>)>>
    /\ mistakes = <<MissingAttrs(1),
                    NestedDelim(Angle, 0, 1),
                    UnclosedDelim(Angle, 0)>>

\* The pieces of the codes token of the current Angle-open.
Pieces == Split(TokenStr(current + 1))

\* The pieces that are not allowed after-angle codes, in their order.
BadPieces == SelectSeq(Pieces, LAMBDA code : ~in_after_angle(config, code))

\* C13: for the codes token after an Angle-open one BadAttr{attr, at} is
\* recorded for each piece that is not an allowed code, in the order of the
\* pieces, and one AttrList is emitted if and only if no piece is invalid.
C13_BadAttrPerPiece ==
    [][(AngleOpenStep /\ ~NoCodesToken) =>
          /\ AppendOnly
          /\ AttrMistakes = [k \in 1..Len(BadPieces) |->
                                BadAttr(BadPieces[k], current + 1)]
          /\ IF BadPieces = <<>>
             THEN Len(AttrNodes) = 1 /\ AttrNodes[1].node = "AttrList"
             ELSE AttrNodes = <<>>]_vars

\* The segment `< S_X` with the after-angle codes S and M: the one invalid
\* piece X suppresses the list though S is valid.
C13_Witness ==
    /\ pc = "done"
    /\ Kinds = <<Open(Angle), NonDelim>>
    /\ TokenStr(1) = <<"S", "_", "X">>
    /\ in_after_angle(config, <<"S">>)
    /\ nodes = <<NodeOpen(Angle)>>
    /\ mistakes = <<BadAttr(<<"X">>, 1), UnclosedDelim(Angle, 0)>>

\* C14: when every piece of the codes token is an allowed code, the step
\* emits exactly one AttrList and records no BadAttr; its codes are strictly
\* ascending (so without duplicates) and are the non-empty pieces.
C14_AttrListSortedDistinct ==
    [][(AngleOpenStep /\ ~NoCodesToken /\ BadPieces = <<>>) =>
          /\ AttrMistakes = <<>>
          /\ Len(AttrNodes) = 1
          /\ AttrNodes[1].node = "AttrList"
          /\ LET codes == AttrNodes[1].codes
             IN /\ \A k \in 1..(Len(codes) - 1) : StrLess(codes[k], codes[k + 1])
                /\ {codes[k] : k \in 1..Len(codes)}
                      = {Pieces[k] : k \in 1..Len(Pieces)} \ {<<>>}]_vars

\* The segment `< S_M >` with the after-angle codes S and M.
C14_Witness ==
    /\ pc = "done"
    /\ Kinds = <<Open(Angle), NonDelim, Close(Angle)>>
    /\ TokenStr(1) = <<"S", "_", "M">>
    /\ nodes = <<NodeOpen(Angle), NodeAttrList(<< <<"M">>, <<"S">> >>),
                 NodeClose(Angle)>>
    /\ mistakes = <<>>

\* The strings the segment offers to a matcher: every token in full (a
\* word, two codes written together, a `_`-joined list), every `_`-separated
\* piece of a token, and the empty string.
Candidates ==
    {<<>>}
    \cup {TokenStr(i) : i \in 0..(Len(tokens) - 1)}
    \cup UNION {LET pieces == Split(TokenStr(i))
                IN {pieces[k] : k \in 1..Len(pieces)} :
                   i \in 0..(Len(tokens) - 1)}

----------------------------------------------------------------------------
(* Properties of the atoms matcher *)

\* The successive matches of the listed atoms in s from pos on, taking at
\* each place the longest listed atom that matches there.
RECURSIVE LongestMatches(_, _, _)
LongestMatches(atoms, s, pos) ==
    LET starts == {p \in pos..Len(s) : \E k \in 1..Len(atoms) : MatchAt(atoms[k], s, p)}
    IN IF starts = {} THEN <<>>
       ELSE LET p == CHOOSE q \in starts : \A r \in starts : q <= r
                lens == {Len(atoms[k]) : k \in {j \in 1..Len(atoms) : MatchAt(atoms[j], s, p)}}
                e == p + (CHOOSE l \in lens : \A m \in lens : m <= l)
            IN <<[start |-> p, end |-> e]>>
               \o (IF e > p THEN LongestMatches(atoms, s, e) ELSE <<>>)

\* The orders in which a caller can list the same atoms.
Reorderings(atoms) ==
    LET n == Len(atoms)
    IN {[k \in 1..n |-> atoms[f[k]]] :
           f \in {g \in [1..n -> 1..n] : \A a, b \in 1..n : g[a] = g[b] => a = b}}

\* C16: the atom check of a word works on the matches that take, at each
\* place, the longest atom the caller listed, and the verdict on the word
\* is the same for every order in which the caller lists the atoms.
C16_LongestAtomFirst ==
    [][(ReachesAtomCheck /\ config.atoms.is_some) =>
          /\ LET r == atom_check(LongestMatches(args.atoms, CurrentStr, 0),
                                 Len(CurrentStr), current)
             IN /\ mistakes' = mistakes \o r.mistakes
                /\ nodes' = IF r.word_ok
                            THEN Append(nodes, NodeToken(CurrentToken)) ELSE nodes
          /\ \A atoms \in Reorderings(args.atoms) :
                lexical_check(Compile([args EXCEPT !.atoms = atoms]),
                              CurrentStr, current)
                   = lexical_check(config, CurrentStr, current)]_vars

\* The word `ab` accepted as the one atom ab though the caller listed its
\* prefix a before it.
C16_Witness ==
    /\ current = 1
    /\ Len(tokens) >= 1
    /\ tokens[1].kind = NonDelim
    /\ Len(args.atoms) >= 2
    /\ TokenStr(0) = <<"a", "b">>
    /\ args.atoms[1] = <<"a">>
    /\ args.atoms[2] = <<"a", "b">>
    /\ ~Contains(args.atoms, <<"b">>)
    /\ nodes = <<NodeToken(tokens[1])>>
    /\ mistakes = <<>>

----------------------------------------------------------------------------
(* Properties of the whole pass *)

\* Node::Open(kind) emitted minus Node::Close(kind) emitted.
Balance(kind) ==
    Cardinality({n \in 1..Len(nodes) : nodes[n] = NodeOpen(kind)})
    - Cardinality({n \in 1..Len(nodes) : nodes[n] = NodeClose(kind)})

\* UnclosedDelim{kind} is among the mistakes.
ReportedUnclosed(kind) ==
    \E m \in 1..Len(mistakes) :
       /\ mistakes[m].mistake = "UnclosedDelim"
       /\ mistakes[m].kind = kind

\* C17: at every point and for each kind, the Open nodes minus the Close
\* nodes of the kind are 1 if the kind's open index is set and 0 otherwise;
\* at the end of input the difference is 1 exactly when UnclosedDelim{kind}
\* is reported, so it is 0 for every kind when there is no mistake.
C17_DelimiterBalance ==
    \A kind \in DelimKind :
       /\ Balance(kind) = IF OpenIndex(kind) # None THEN 1 ELSE 0
       /\ pc = "run" => ~ReportedUnclosed(kind)
       /\ pc = "done" => (Balance(kind) = 1 <=> ReportedUnclosed(kind))
       /\ (pc = "done" /\ mistakes = <<>>) => Balance(kind) = 0

\* The segment `( ) (` validated to the end: the second Round is left open.
C17_Witness ==
    /\ pc = "done"
    /\ Kinds = <<Open(Round), Close(Round), Open(Round)>>
    /\ nodes = <<NodeOpen(Round), NodeClose(Round), NodeOpen(Round)>>
    /\ Balance(Round) = 1
    /\ mistakes = <<UnclosedDelim(Round, 2)>>

\* The new mistakes of a step include one of the given name.
Records(name) == \E m \in 1..Len(NewMistakes) : NewMistakes[m].mistake = name

\* C18: a word token for which BadToken or BadSubstr is recorded gets no
\* node, and a delimiter token for which NestedDelim or
\* ClosingUnopenedDelim is recorded gets no Open or Close node.
C18_NoNodeForIllegalToken ==
    [][/\ (WordStep /\ (Records("BadToken") \/ Records("BadSubstr")))
             => nodes' = nodes
       /\ (InLoop /\ CurrentKind # NonDelim
                  /\ (Records("NestedDelim") \/ Records("ClosingUnopenedDelim")))
             => \A n \in 1..Len(NewNodes) : NewNodes[n].node \notin {"Open", "Close"}]_vars

\* C19: the pass terminates and never gets stuck.  Each step of the loop
\* moves the cursor forward, by 2 when an Angle-open consumes a codes token
\* and by 1 otherwise; the cursor never passes the number of tokens, the
\* loop ends with the cursor exactly there, and the result is returned.
C19_TerminatesCursorAdvances ==
    /\ [][pc = "run" =>
             IF InLoop
             THEN /\ current' = current
                                + (IF AngleOpenStep /\ ~NoCodesToken THEN 2 ELSE 1)
                  /\ pc' = "run"
             ELSE /\ current' = current
                  /\ pc' = "done"]_vars
    /\ [](current <= Len(tokens))
    /\ [](pc = "done" => current = Len(tokens))
    /\ <>(pc = "done")

\* The segment `< S (` validated to the end: the Angle-open consumed S as
\* its codes token and the cursor went from 0 to 2, then to 3.
C19_Witness ==
    /\ pc = "done"
    /\ Kinds = <<Open(Angle), NonDelim, Open(Round)>>
    /\ TokenStr(1) = <<"S">>
    /\ current = 3
    /\ nodes = <<NodeOpen(Angle), NodeAttrList(<< <<"S">> >>), NodeOpen(Round)>>
    /\ mistakes = <<UnclosedDelim(Round, 2), UnclosedDelim(Angle, 0)>>

----------------------------------------------------------------------------
(* Properties of validations that share a configuration *)

\* C21: validation never changes the configuration, and two segments
\* validated against the same configuration with their steps interleaved
\* in any order each get the nodes and mistakes they get when validated
\* alone.
C21_SharedConfigIndependent ==
    /\ [][config' = config]_vars
    /\ []((pc = "done" /\ previous # None)
          => [nodes |-> nodes, mistakes |-> mistakes] = Unwrap(previous))

\* Both validations are between two of their steps; one has a Round pair
\* open and the other, which has none open, is at a numeral.
C21_Witness ==
    /\ suspended # None
    /\ 0 < current /\ current < Len(tokens)
    /\ round_start # None
    /\ LET o == Unwrap(suspended)
       IN /\ 0 < o.current /\ o.current < Len(o.tokens)
          /\ o.round_start = None
          /\ o.tokens[o.current + 1].kind = NonDelim

----------------------------------------------------------------------------
(* Properties of the tokenizer *)

\* The maximal runs of characters other than whitespace, in order.
RECURSIVE RunsFrom(_, _, _)
RunsFrom(text, i, run) ==
    IF i > Len(text) THEN (IF run = <<>> THEN <<>> ELSE <<run>>)
    ELSE IF text[i] \in WhitespaceBytes
    THEN (IF run = <<>> THEN <<>> ELSE <<run>>) \o RunsFrom(text, i + 1, <<>>)
    ELSE RunsFrom(text, i + 1, Append(run, text[i]))

RECURSIVE JoinRuns(_)
JoinRuns(runs) ==
    IF runs = <<>> THEN <<>>
    ELSE IF Len(runs) = 1 THEN runs[1]
    ELSE runs[1] \o <<" ">> \o JoinRuns(Tail(runs))

\* The tokenizer has normalized the text it was given.
Normalized == tokenizer.pc \in {"loop", "returned"}

Returned == tokenizer.pc = "returned"

\* C22: the text of the segment is the text given with every run of
\* whitespace replaced by one space and none left at its ends; tokenizing
\* the text of the segment returned gives the same text and the same
\* tokens.
C22_NormalizationIdempotent ==
    /\ Normalized
       => tokenizer.segment.text = JoinRuns(RunsFrom(tokenizer.text, 1, <<>>))
    /\ (Returned /\ tokenizer.first # None)
       => tokenizer.segment = Unwrap(tokenizer.first).segment

\* The second call has returned; the text of the first call had a tab and
\* was changed by the normalization, and there are tokens.
C22_Witness ==
    /\ Returned
    /\ tokenizer.first # None
    /\ LET given == Unwrap(tokenizer.first).text
       IN /\ \E i \in 1..Len(given) : given[i] = "09"
          /\ given # tokenizer.segment.text
    /\ Len(tokenizer.segment.tokens) >= 2

SegText == tokenizer.segment.text

SegTokens == tokenizer.segment.tokens

BracketBytes == {"(", ")", "[", "]", "<", ">"}

\* The kind a bracket character stands for.
BracketKind(b) ==
    CASE b = "(" -> Open(Round)
      [] b = ")" -> Close(Round)
      [] b = "[" -> Open(Square)
      [] b = "]" -> Close(Square)
      [] b = "<" -> Open(Angle)
      [] b = ">" -> Close(Angle)

\* The kinds of tokenizer.rs read as the kinds of the parser's tokens: a
\* word or a special token is not a delimiter.
AsKind(kind) ==
    IF kind \in {Word, Special} THEN NonDelim
    ELSE IF kind = OpenSquare THEN Open(Square)
    ELSE IF kind = CloseSquare THEN Close(Square)
    ELSE kind

InRun(b) == b \notin (BracketBytes \cup {" "})

\* The maximal runs of bytes that are neither a space nor a bracket, as
\* pairs of byte offsets (start, end) into the text of the segment.
MaximalRuns ==
    {r \in (0..Len(SegText)) \X (0..Len(SegText)) :
        /\ r[1] < r[2]
        /\ \A i \in (r[1] + 1)..r[2] : InRun(SegText[i])
        /\ r[1] = 0 \/ ~InRun(SegText[r[1]])
        /\ r[2] = Len(SegText) \/ ~InRun(SegText[r[2] + 1])}

\* The tokens that cover some byte of the range from..to.
Covering(from, to) ==
    {i \in 1..Len(SegTokens) : SegTokens[i].start < to /\ SegTokens[i].end > from}

\* C23: in the segment returned, every maximal run of characters other
\* than the space and the six brackets is one token that is not a
\* delimiter and spans exactly the run, whatever the run holds and whatever
\* the configuration is; no other token covers a byte of it.
C23_RunIsOneNonDelim ==
    Returned
    => \A r \in MaximalRuns :
           /\ Cardinality(Covering(r[1], r[2])) = 1
           /\ \A i \in Covering(r[1], r[2]) :
                  /\ AsKind(SegTokens[i].kind) = NonDelim
                  /\ SegTokens[i].start = r[1]
                  /\ SegTokens[i].end = r[2]

\* C24: in the segment returned, each occurrence of one of the six bracket
\* characters is a token of one character of the Open or Close kind of
\* that bracket, and no other token covers it.
C24_BracketIsOwnToken ==
    Returned
    => \A p \in 0..(Len(SegText) - 1) :
           SegText[p + 1] \in BracketBytes
           => /\ Cardinality(Covering(p, p + 1)) = 1
              /\ \A i \in Covering(p, p + 1) :
                     /\ AsKind(SegTokens[i].kind) = BracketKind(SegText[p + 1])
                     /\ SegTokens[i].start = p
                     /\ SegTokens[i].end = p + 1

\* C25: the tokens of the segment returned are in left-to-right order and
\* do not overlap: every token has start < end, starts at or after the end
\* of the token before it, and covers no space.
C25_TokensOrderedDisjoint ==
    Returned
    => \A i \in 1..Len(SegTokens) :
           /\ SegTokens[i].start < SegTokens[i].end
           /\ i > 1 => SegTokens[i].start >= SegTokens[i - 1].end
           /\ \A p \in (SegTokens[i].start + 1)..SegTokens[i].end :
                  SegText[p] # " "

\* C26: the slices of the text of the segment returned that its tokens
\* give, written in order with one space between two of them, are the
\* text of the segment.
C26_RoundTrip ==
    Returned
    => JoinRuns([i \in 1..Len(SegTokens) |->
                    Slice(SegText, SegTokens[i].start, SegTokens[i].end)])
       = SegText

----------------------------------------------------------------------------
(* The empty string as an after-angle code *)

\* C27: whatever the after-angle list holds, the empty string is not an
\* allowed code, and a codes token with an empty piece records BadAttr with
\* the empty attr for it and emits no AttrList.
C27_EmptyCodeNeverAccepted ==
    /\ [](~in_after_angle(config, <<>>))
    /\ [][(AngleOpenStep /\ ~NoCodesToken
           /\ \E k \in 1..Len(Pieces) : Pieces[k] = <<>>)
          => /\ \E m \in 1..Len(AttrMistakes) :
                    AttrMistakes[m] = BadAttr(<<>>, current + 1)
             /\ AttrNodes = <<>>]_vars

----------------------------------------------------------------------------
(* Independence of the delimiter kinds *)

\* The delimiter mistakes among the mistakes a step appends.
NewDelimMistakes ==
    SelectSeq(NewMistakes,
              LAMBDA m : m.mistake \in {"NestedDelim", "ClosingUnopenedDelim",
                                        "UnclosedDelim"})

\* C28: an Open or a Close of one kind leaves the open index of every other
\* kind as it is and a word leaves all three as they are; an Open of a kind
\* that is not open and a Close of a kind that is open record no delimiter
\* mistake, whatever other kinds are open, so spans of different kinds nest
\* or cross without a mistake.
C28_KindsIndependent ==
    [][/\ \A kind \in DelimKind :
             (InLoop /\ CurrentKind \in {Open(kind), Close(kind)})
             => /\ \A k2 \in DelimKind \ {kind} : OpenIndex(k2)' = OpenIndex(k2)
                /\ (CurrentKind = Open(kind)) = (OpenIndex(kind) = None)
                   => NewDelimMistakes = <<>>
       /\ WordStep => \A kind \in DelimKind : OpenIndex(kind)' = OpenIndex(kind)]_vars

\* The segment `[ ( ]` before the end of the pass: the Square pair is
\* closed across the Round pair opened inside it, which is still open, and
\* there is no mistake.
C28_Witness ==
    /\ pc = "run"
    /\ Kinds = <<Open(Square), Open(Round), Close(Square)>>
    /\ current = 3
    /\ mistakes = <<>>
    /\ nodes = <<NodeOpen(Square), NodeOpen(Round), NodeClose(Square)>>
    /\ round_start = Some(1)
    /\ square_start = None

----------------------------------------------------------------------------
(* The codes token is not a word *)

\* C29: a NonDelim token right after an Angle-open is consumed by the step
\* of the Angle-open as the codes list: the step records no BadToken and no
\* BadSubstr, emits no Node::Token and leaves the cursor on the token after
\* the codes token, so the cursor never rests on a NonDelim token that
\* follows an Angle-open.
C29_CodesTokenNotAWord ==
    /\ [][(AngleOpenStep /\ ~NoCodesToken)
          => /\ current' = current + 2
             /\ \A m \in 1..Len(NewMistakes) :
                    NewMistakes[m].mistake \notin {"BadToken", "BadSubstr"}
             /\ \A n \in 1..Len(NewNodes) : NewNodes[n].node # "Token"]_vars
    /\ []((InLoop /\ current >= 1 /\ tokens[current].kind = Open(Angle))
          => CurrentKind # NonDelim)

\* The segment `< 12 b` validated to the end with the blacklist [b] and the
\* after-angle codes S and X: the numeral after the Angle-open is a bad
\* code and not a bad token, and the word after it is validated.
C29_Witness ==
    /\ pc = "done"
    /\ Len(tokens) = 3
    /\ Kinds = <<Open(Angle), NonDelim, NonDelim>>
    /\ TokenStr(1) = <<"1", "2">>
    /\ TokenStr(2) = <<"b">>
    /\ mistakes = <<BadAttr(<<"1", "2">>, 1), BadToken(2), UnclosedDelim(Angle, 0)>>
    /\ nodes = <<NodeOpen(Angle)>>

----------------------------------------------------------------------------
(* The nodes of a segment without mistakes *)

\* Token i (from 0) is a NonDelim token right after an Angle-open.
IsCodesToken(i) ==
    /\ i >= 1
    /\ tokens[i + 1].kind = NonDelim
    /\ tokens[i].kind = Open(Angle)

\* The node that stands for token i (from 0) is right for it.
NodeFits(i) ==
    LET token == tokens[i + 1]
        node == nodes[i + 1]
    IN IF IsCodesToken(i) THEN node.node = "AttrList"
       ELSE IF token.kind = NonDelim THEN node = NodeToken(token)
       ELSE \E kind \in DelimKind :
               \/ token.kind = Open(kind) /\ node = NodeOpen(kind)
               \/ token.kind = Close(kind) /\ node = NodeClose(kind)

\* C30: when the pass ends without a mistake there is one node for each
\* token, in the order of the tokens: Open and Close for the delimiters,
\* AttrList for a codes token right after an Angle-open and Node::Token of
\* the token for every other NonDelim token.
C30_OneNodePerTokenWhenClean ==
    (pc = "done" /\ mistakes = <<>>)
    => /\ Len(nodes) = Len(tokens)
       /\ \A i \in 0..(Len(tokens) - 1) : NodeFits(i)

\* The segment `< S >` validated to the end with S among the after-angle
\* codes: no mistake and the nodes Open, AttrList, Close.
C30_Witness ==
    /\ pc = "done"
    /\ mistakes = <<>>
    /\ Kinds = <<Open(Angle), NonDelim, Close(Angle)>>
    /\ nodes = <<NodeOpen(Angle), NodeAttrList(<<<<"S">>>>), NodeClose(Angle)>>

----------------------------------------------------------------------------
(* The place of an AttrList among the nodes *)

\* C31: in every state every Node::AttrList is immediately preceded by a
\* Node::Open(Angle).
C31_AttrListRightAfterOpenAngle ==
    \A n \in 1..Len(nodes) :
        nodes[n].node = "AttrList" => (n > 1 /\ nodes[n - 1] = NodeOpen(Angle))

\* C31 as the code has it: an AttrList is emitted only by the step of an
\* Angle-open whose next token is a codes token with no invalid piece; that
\* step emits Node::Open(Angle) and then the AttrList when the Angle-open is
\* accepted, and the AttrList alone, after whatever node came last, when the
\* Angle-open is reported as NestedDelim.  In every state some
\* Node::Open(Angle) comes before every AttrList.
C31_AttrListFollowsItsAngleOpen ==
    /\ [][IF AngleOpenStep /\ ~NoCodesToken /\ BadPieces = <<>>
          THEN /\ AppendOnly
               /\ IF angle_start = None
                  THEN /\ Len(NewNodes) = 2
                       /\ NewNodes[1] = NodeOpen(Angle)
                       /\ NewNodes[2].node = "AttrList"
                  ELSE /\ Len(NewNodes) = 1
                       /\ NewNodes[1].node = "AttrList"
          ELSE \A n \in (Len(nodes) + 1)..Len(nodes') :
                   nodes'[n].node # "AttrList"]_vars
    /\ [](\A n \in 1..Len(nodes) :
             nodes[n].node = "AttrList"
             => \E k \in 1..(n - 1) : nodes[k] = NodeOpen(Angle))

\* The segment `< ( < S` validated to the end with S among the after-angle
\* codes: the second Angle-open is nested, and its AttrList comes right
\* after the Node::Open(Round).
C31_Witness ==
    /\ pc = "done"
    /\ Kinds = <<Open(Angle), Open(Round), Open(Angle), NonDelim>>
    /\ nodes = <<NodeOpen(Angle), NodeOpen(Round), NodeAttrList(<<<<"S">>>>)>>
    /\ mistakes = <<MissingAttrs(1), NestedDelim(Angle, 0, 2),
                    UnclosedDelim(Round, 1), UnclosedDelim(Angle, 0)>>

=============================================================================
